---- MODULE Spec2Model ----
(***************************************************************************)
(* Model of proto.Compare / proto.LessThan (src/proto/compare.go) and of   *)
(* the value comparison they delegate to (protoreflect.Value.Compare).     *)
(*                                                                         *)
(* compare.go is translated statement by statement.  Value.Compare and     *)
(* proto.Equal are not part of the source tree at hand; they are           *)
(* reconstructed from the specification and pinned to the expectations of  *)
(* TestCompare (src/proto/compare_test.go) and of TestValueCompare /       *)
(* TestValueEqual (src/unnamed/part_000) wherever those tests speak.       *)
(***************************************************************************)
EXTENDS Integers, Sequences, FiniteSets, TLC

VARIABLES
    x, y, z,     \* the message handles the caller holds
    heap,        \* address -> Message: the messages the handles point to
    pc,          \* "idle" before the call, then which call has returned
    cmpRet,      \* result of Compare(x, y)
    lessRet,     \* result of LessThan(x, y)
    eqRet,       \* result of Equal(x, y)
    vx, vy,      \* the two Values a caller of Value.Compare holds
    valRet       \* result of vx.Compare(vy)

vars == <<x, y, z, heap, pc, cmpRet, lessRet, eqRet, vx, vy, valRet>>

-----------------------------------------------------------------------------
(* Scalar helpers *)

\* three-way comparison of two integers
cmpInt(a, b) == IF a < b THEN -1 ELSE IF a > b THEN 1 ELSE 0

\* width of the unsigned integers of the model: TLC integers have 32 bits,
\* so the 64-bit unsigned range is scaled down to 0..2^UintBits - 1, the
\* upper half standing for the values whose top bit is set
UintBits == 4

UintTop == 2 ^ UintBits

\* two unsigned integers compared after reinterpreting them as signed
compareUintAsSigned(a, b) ==
    cmpInt(IF 2 * a >= UintTop THEN a - UintTop ELSE a,
           IF 2 * b >= UintTop THEN b - UintTop ELSE b)

\* two unsigned integers, as unsigned
compareUint(a, b) == cmpInt(a, b)

\* boolCompare without the sign: any difference reports "less"
boolCompareNoSign(a, b) == IF a = b THEN 0 ELSE -1

\* compare.go: func boolCompare[T ~bool](x, y T) int
boolCompare(a, b) == IF a = b THEN 0 ELSE IF ~a THEN -1 ELSE 1

RECURSIVE compareBytesNoPrefix(_, _)
\* compareBytes without the prefix rule: only the shared indices count
compareBytesNoPrefix(a, b) ==
    IF a = <<>> \/ b = <<>> THEN 0
    ELSE IF Head(a) # Head(b) THEN cmpInt(Head(a), Head(b))
    ELSE compareBytesNoPrefix(Tail(a), Tail(b))

RECURSIVE compareBytes(_, _)
\* byte-wise lexicographic comparison (bytes.Compare / strings.Compare):
\* first differing byte decides, a strict prefix is less.
compareBytes(a, b) ==
    IF a = <<>> /\ b = <<>> THEN 0
    ELSE IF a = <<>> THEN -1
    ELSE IF b = <<>> THEN 1
    ELSE IF Head(a) # Head(b) THEN cmpInt(Head(a), Head(b))
    ELSE compareBytes(Tail(a), Tail(b))

-----------------------------------------------------------------------------
(* Values.  A Value is a record tagged by k:                               *)
(*   [k |-> "invalid"]                                                     *)
(*   [k |-> "bool",  b |-> BOOLEAN]                                        *)
(*   [k |-> "int" / "uint", w |-> 32 or 64, n |-> Int]                     *)
(*   [k |-> "float", w |-> 32 or 64, c |-> "nan"/"ninf"/"num"/"pinf",      *)
(*                   n |-> Int]                                            *)
(*   [k |-> "string" / "bytes", s |-> sequence of bytes]; a bytes Value    *)
(*       built by ValueOfBytes also says whether the slice is nil          *)
(*   [k |-> "enum", n |-> Int]                                             *)
(*   [k |-> "list", s |-> sequence of Values]                              *)
(*   [k |-> "map",  s |-> sequence of [key, val] in storage order]         *)
(*   [k |-> "msg",  m |-> Message]                                         *)
(* A Message is [valid, type, fields, unknown]: type is the full name as a *)
(* byte sequence, fields the populated fields [num, val] in ascending      *)
(* number order, unknown the undecoded entries [num, wt, payload].         *)

\* kindRank with the composite kinds in the order message, list, map
kindRankMsgBelowList(k) ==
    CASE k = "invalid" -> 0
      [] k = "bool"    -> 1
      [] k = "int"     -> 2
      [] k = "uint"    -> 3
      [] k = "float"   -> 4
      [] k = "string"  -> 5
      [] k = "bytes"   -> 6
      [] k = "enum"    -> 7
      [] k = "msg"     -> 8
      [] k = "list"    -> 9
      [] k = "map"     -> 10

\* rank of a kind in the cross-kind precedence table
kindRank(k) ==
    CASE k = "invalid" -> 0
      [] k = "bool"    -> 1
      [] k = "int"     -> 2
      [] k = "uint"    -> 3
      [] k = "float"   -> 4
      [] k = "string"  -> 5
      [] k = "bytes"   -> 6
      [] k = "enum"    -> 7
      [] k = "list"    -> 8
      [] k = "map"     -> 9
      [] k = "msg"     -> 10

\* position of a float on the extended real line; NaN sits below -Inf
floatClassRank(c) ==
    CASE c = "nan"  -> 0
      [] c = "ninf" -> 1
      [] c = "num"  -> 2
      [] c = "pinf" -> 3

\* compareFloat with the narrower width ordered first
compareFloatWidthFirst(a, b) ==
    IF a.w # b.w THEN cmpInt(a.w, b.w)
    ELSE IF a.c # b.c THEN cmpInt(floatClassRank(a.c), floatClassRank(b.c))
    ELSE IF a.c = "num" THEN cmpInt(a.n, b.n)
    ELSE 0

\* total order on floats: NaN = NaN < -Inf < finite < +Inf
compareFloat(a, b) ==
    IF a.c # b.c THEN cmpInt(floatClassRank(a.c), floatClassRank(b.c))
    ELSE IF a.c = "num" THEN cmpInt(a.n, b.n)
    ELSE 0

\* rank of a wire category of an undecoded entry
wireRank(wt) ==
    CASE wt = "varint"  -> 0
      [] wt = "fixed32" -> 1
      [] wt = "fixed64" -> 2
      [] wt = "bytes"   -> 3
      [] wt = "group"   -> 4

\* one undecoded entry against another: number, wire category, payload
compareUnknownEntry(a, b) ==
    IF a.num # b.num THEN cmpInt(a.num, b.num)
    ELSE IF a.wt # b.wt THEN cmpInt(wireRank(a.wt), wireRank(b.wt))
    ELSE compareBytes(a.payload, b.payload)

RECURSIVE compareUnknown(_, _)
\* undecoded-field tail: entry by entry, the sequence that runs out first
\* is less
compareUnknown(a, b) ==
    IF a = <<>> /\ b = <<>> THEN 0
    ELSE IF a = <<>> THEN -1
    ELSE IF b = <<>> THEN 1
    ELSE LET c == compareUnknownEntry(Head(a), Head(b))
         IN  IF c # 0 THEN c ELSE compareUnknown(Tail(a), Tail(b))

\* order of two map keys: keys of one map are scalars of one kind, so the
\* byte string, the boolean or the integer payload orders them
keyLess(a, b) ==
    IF a.k \in {"string", "bytes"} THEN compareBytes(a.s, b.s) < 0
    ELSE IF a.k = "bool" THEN boolCompare(a.b, b.b) < 0
    ELSE a.n < b.n

RECURSIVE insertEntry(_, _)
\* insert entry e into the key-sorted sequence s
insertEntry(e, s) ==
    IF s = <<>> THEN <<e>>
    ELSE IF keyLess(e.key, Head(s).key) THEN <<e>> \o s
    ELSE <<Head(s)>> \o insertEntry(e, Tail(s))

\* sortEntries without the sort: the entries in storage order
storedOrder(s) == s

RECURSIVE sortEntries(_)
\* canonical order of a map: its entries sorted ascending by key
sortEntries(s) ==
    IF s = <<>> THEN <<>> ELSE insertEntry(Head(s), sortEntries(Tail(s)))

-----------------------------------------------------------------------------
(* The recursive comparator behind Value.Compare *)

RECURSIVE compareValue(_, _)
RECURSIVE compareList(_, _)
RECURSIVE compareEntries(_, _)
RECURSIVE compareFields(_, _)
RECURSIVE compareMessage(_, _)

\* element by element at increasing index; the caller has already
\* established that both sequences have the same length
compareList(a, b) ==
    IF a = <<>> \/ b = <<>> THEN cmpInt(Len(a), Len(b))
    ELSE LET c == compareValue(Head(a), Head(b))
         IN  IF c # 0 THEN c ELSE compareList(Tail(a), Tail(b))

\* key-sorted map entries, pairwise: key first, value only on a key tie
compareEntries(a, b) ==
    IF a = <<>> \/ b = <<>> THEN cmpInt(Len(a), Len(b))
    ELSE LET ck == compareValue(Head(a).key, Head(b).key)
             cv == compareValue(Head(a).val, Head(b).val)
         IN  IF ck # 0 THEN ck
             ELSE IF cv # 0 THEN cv
             ELSE compareEntries(Tail(a), Tail(b))

\* populated fields in ascending number order, pairwise: field number
\* first, value on a number tie
compareFields(a, b) ==
    IF a = <<>> \/ b = <<>> THEN cmpInt(Len(a), Len(b))
    ELSE IF Head(a).num # Head(b).num THEN cmpInt(Head(a).num, Head(b).num)
    ELSE LET c == compareValue(Head(a).val, Head(b).val)
         IN  IF c # 0 THEN c ELSE compareFields(Tail(a), Tail(b))

\* two messages: full type name, then the populated fields in number
\* order, then the undecoded tail
compareMessage(mx, my) ==
    IF mx.type # my.type THEN compareBytes(mx.type, my.type)
    ELSE LET c == compareFields(mx.fields, my.fields)
         IN  IF c # 0 THEN c ELSE compareUnknown(mx.unknown, my.unknown)

\* Value.Compare: kinds by rank, equal kinds by payload; a list or a map
\* with fewer elements is less than one with more; a map is compared as the
\* sequence of its entries sorted by key, by the rule for lists
compareValue(a, b) ==
    IF a.k # b.k THEN cmpInt(kindRank(a.k), kindRank(b.k))
    ELSE CASE a.k = "invalid" -> 0
           [] a.k = "bool"    -> boolCompare(a.b, b.b)
           [] a.k \in {"int", "enum"} -> cmpInt(a.n, b.n)
           [] a.k = "uint"    -> compareUint(a.n, b.n)
           [] a.k = "float"   -> compareFloat(a, b)
           [] a.k \in {"string", "bytes"} -> compareBytes(a.s, b.s)
           [] a.k = "list"    ->
                IF Len(a.s) # Len(b.s) THEN cmpInt(Len(a.s), Len(b.s))
                ELSE compareList(a.s, b.s)
           [] a.k = "map"     ->
                IF Len(a.s) # Len(b.s) THEN cmpInt(Len(a.s), Len(b.s))
                ELSE compareEntries(sortEntries(a.s), sortEntries(b.s))
           [] a.k = "msg"     -> compareMessage(a.m, b.m)

-----------------------------------------------------------------------------
(* Structural equality (proto.Equal / Value.Equal) *)

RECURSIVE equalValue(_, _)
RECURSIVE equalMessage(_, _)

\* the value stored under key k in the entry sequence s, or the invalid
\* Value when the map has no such key
mapGet(s, k) ==
    IF \E i \in 1..Len(s) : s[i].key = k
    THEN s[CHOOSE i \in 1..Len(s) : s[i].key = k].val
    ELSE [k |-> "invalid"]

\* same type, same populated fields with equal values, same undecoded tail
equalMessage(mx, my) ==
    /\ mx.type = my.type
    /\ Len(mx.fields) = Len(my.fields)
    /\ \A i \in 1..Len(mx.fields) :
          /\ mx.fields[i].num = my.fields[i].num
          /\ equalValue(mx.fields[i].val, my.fields[i].val)
    /\ mx.unknown = my.unknown

\* Value.Equal: same kind and width, equal payload; NaN equals NaN
equalValue(a, b) ==
    IF a.k # b.k THEN FALSE
    ELSE CASE a.k = "invalid" -> TRUE
           [] a.k = "bool"    -> a.b = b.b
           [] a.k \in {"int", "uint"} -> a.w = b.w /\ a.n = b.n
           [] a.k = "enum"    -> a.n = b.n
           [] a.k = "float"   ->
                a.w = b.w /\ a.c = b.c /\ (a.c = "num" => a.n = b.n)
           [] a.k \in {"string", "bytes"} -> a.s = b.s
           [] a.k = "list"    ->
                /\ Len(a.s) = Len(b.s)
                /\ \A i \in 1..Len(a.s) : equalValue(a.s[i], b.s[i])
           [] a.k = "map"     ->
                /\ Len(a.s) = Len(b.s)
                /\ \A i \in 1..Len(a.s) :
                      equalValue(a.s[i].val, mapGet(b.s, a.s[i].key))
           [] a.k = "msg"     -> equalMessage(a.m, b.m)

-----------------------------------------------------------------------------
(* Message handles (the proto.Message interface values handed to Compare)  *)
(*   [rep |-> "nil"]                      the nil interface                *)
(*   [rep |-> "ptr", dyn, addr, target]   a pointer; dyn is its dynamic Go *)
(*                                        type, addr the pointer value     *)
(*   [rep |-> "struct", dyn, addr, target] a struct value embedding a      *)
(*                                        message pointer; its type is not *)
(*                                        comparable (pragma.DoNotCompare) *)
(* target is the heap address of the message the handle reflects to,       *)
(* NilAddr for a nil pointer; dyn[2] is the full name of the message type. *)
(* An address is a pair <<content at allocation, allocation number>>, so   *)
(* that two allocations of equal content are two addresses.                *)

NilAddr == <<>>

NilHandle == [rep |-> "nil"]

PtrHandle(t, a) ==
    [rep |-> "ptr", dyn |-> <<"*", t>>, addr |-> a, target |-> a]

WrapHandle(t, a) ==
    [rep |-> "struct", dyn |-> <<"wrap", t>>, addr |-> NilAddr, target |-> a]

PtrWrapHandle(t, a) ==
    [rep |-> "ptr", dyn |-> <<"*wrap", t>>, addr |-> a, target |-> a]

InvalidMsg(t) ==
    [valid |-> FALSE, type |-> t, fields |-> <<>>, unknown |-> <<>>]

\* x.ProtoReflect(): the message behind a non-nil handle; a nil pointer
\* reflects to an invalid (read-only, empty) message of its type
ProtoReflect(h) ==
    IF h.target = NilAddr THEN InvalidMsg(h.dyn[2]) ELSE heap[h.target]

\* mx.IsValid()
IsValid(m) == m.valid

\* ValueOfMessage that wraps the known fields only
ValueOfMessageKnownOnly(m) == [k |-> "msg", m |-> [m EXCEPT !.unknown = <<>>]]

\* protoreflect.ValueOfMessage
ValueOfMessage(m) == [k |-> "msg", m |-> m]

\* reflect.TypeOf(x).Kind() == reflect.Ptr
KindIsPtr(h) == h.rep = "ptr"

\* Go's == on two interface values panics when both hold the same
\* dynamic type and that type is not comparable
ifaceEqPanics(hx, hy) == hx.dyn = hy.dyn /\ hx.rep = "struct"

\* Go's == on two non-nil interface values: same dynamic type, same value
ifaceEq(hx, hy) == hx.dyn = hy.dyn /\ hx.addr = hy.addr

\* the identity comparison attempted on every pair of handles
identityAttemptedAlways(hx, hy) == TRUE

\* compare.go:23 - the identity comparison is attempted only behind the
\* Kind() == Ptr guard (Go's && short-circuits)
identityAttempted(hx, hy) == KindIsPtr(hx)

\* identity decided by the dynamic type alone, not by the pointer value
identicalPointersByType(hx, hy) == identityAttempted(hx, hy) /\ hx.dyn = hy.dyn

\* compare.go:23-26
identicalPointers(hx, hy) == identityAttempted(hx, hy) /\ ifaceEq(hx, hy)

\* Compare panics exactly when it evaluates == on incomparable operands
ComparePanics(hx, hy) ==
    /\ hx # NilHandle
    /\ hy # NilHandle
    /\ identityAttempted(hx, hy)
    /\ ifaceEqPanics(hx, hy)

\* Compare without the validity comparison of compare.go:31-33
CompareNoValidity(hx, hy) ==
    IF hx = NilHandle \/ hy = NilHandle
    THEN boolCompare(hx # NilHandle, hy # NilHandle)
    ELSE IF identicalPointers(hx, hy) THEN 0
    ELSE compareValue(ValueOfMessage(ProtoReflect(hx)), ValueOfMessage(ProtoReflect(hy)))

\* Compare with the validity comparison taking its operands in the wrong order
CompareValiditySwapped(hx, hy) ==
    IF hx = NilHandle \/ hy = NilHandle
    THEN boolCompare(hx # NilHandle, hy # NilHandle)
    ELSE IF identicalPointers(hx, hy) THEN 0
    ELSE LET mx == ProtoReflect(hx)
             my == ProtoReflect(hy)
             validCmp == boolCompare(IsValid(my), IsValid(mx))
         IN  IF validCmp # 0 THEN validCmp
             ELSE compareValue(ValueOfMessage(mx), ValueOfMessage(my))

\* Compare with "x == nil" written for "x != nil" in the nil branch
CompareNilTypo(hx, hy) ==
    IF hx = NilHandle \/ hy = NilHandle
    THEN boolCompare(hx = NilHandle, hy # NilHandle)
    ELSE IF identicalPointers(hx, hy) THEN 0
    ELSE LET mx == ProtoReflect(hx)
             my == ProtoReflect(hy)
             validCmp == boolCompare(IsValid(mx), IsValid(my))
         IN  IF validCmp # 0 THEN validCmp
             ELSE compareValue(ValueOfMessage(mx), ValueOfMessage(my))

\* Compare with the nil branch taking its operands in the wrong order
CompareNilSwapped(hx, hy) ==
    IF hx = NilHandle \/ hy = NilHandle
    THEN boolCompare(hy # NilHandle, hx # NilHandle)
    ELSE IF identicalPointers(hx, hy) THEN 0
    ELSE LET mx == ProtoReflect(hx)
             my == ProtoReflect(hy)
             validCmp == boolCompare(IsValid(mx), IsValid(my))
         IN  IF validCmp # 0 THEN validCmp
             ELSE compareValue(ValueOfMessage(mx), ValueOfMessage(my))

\* Compare ending in vx.Compare(vx)
CompareSelf(hx, hy) ==
    IF hx = NilHandle \/ hy = NilHandle
    THEN boolCompare(hx # NilHandle, hy # NilHandle)
    ELSE IF identicalPointers(hx, hy) THEN 0
    ELSE LET mx == ProtoReflect(hx)
             my == ProtoReflect(hy)
             validCmp == boolCompare(IsValid(mx), IsValid(my))
         IN  IF validCmp # 0 THEN validCmp
             ELSE compareValue(ValueOfMessage(mx), ValueOfMessage(mx))

\* Compare ending in vy.Compare(vx)
CompareArgsSwapped(hx, hy) ==
    IF hx = NilHandle \/ hy = NilHandle
    THEN boolCompare(hx # NilHandle, hy # NilHandle)
    ELSE IF identicalPointers(hx, hy) THEN 0
    ELSE LET mx == ProtoReflect(hx)
             my == ProtoReflect(hy)
             validCmp == boolCompare(IsValid(mx), IsValid(my))
         IN  IF validCmp # 0 THEN validCmp
             ELSE compareValue(ValueOfMessage(my), ValueOfMessage(mx))

\* compare.go:19-39  func Compare(x, y Message) int
Compare(hx, hy) ==
    IF hx = NilHandle \/ hy = NilHandle
    THEN boolCompare(hx # NilHandle, hy # NilHandle)
    ELSE IF identicalPointers(hx, hy) THEN 0
    ELSE LET mx == ProtoReflect(hx)
             my == ProtoReflect(hy)
             validCmp == boolCompare(IsValid(mx), IsValid(my))
         IN  IF validCmp # 0 THEN validCmp
             ELSE compareValue(ValueOfMessage(mx), ValueOfMessage(my))

\* compare.go:28-38 - what Compare does to two non-nil handles once the
\* identical-pointer test is out of the way: validity, then the values
CompareFull(hx, hy) ==
    LET mx == ProtoReflect(hx)
        my == ProtoReflect(hy)
        validCmp == boolCompare(IsValid(mx), IsValid(my))
    IN  IF validCmp # 0 THEN validCmp
        ELSE compareValue(ValueOfMessage(mx), ValueOfMessage(my))

\* LessThan answering "not greater" instead of "less"
LessThanOrEqual(hx, hy) == Compare(hx, hy) # 1

\* compare.go:48-50  func LessThan(x, y Message) bool
LessThan(hx, hy) == Compare(hx, hy) = -1

\* proto.Equal: nil only equals nil, identical pointers are equal, validity
\* must agree, then Value.Equal on the two messages
Equal(hx, hy) ==
    IF hx = NilHandle \/ hy = NilHandle
    THEN hx = NilHandle /\ hy = NilHandle
    ELSE IF KindIsPtr(hx) /\ ifaceEq(hx, hy) THEN TRUE
    ELSE LET mx == ProtoReflect(hx)
             my == ProtoReflect(hy)
         IN  /\ IsValid(mx) = IsValid(my)
             /\ equalValue(ValueOfMessage(mx), ValueOfMessage(my))

-----------------------------------------------------------------------------
(* Bounds and the inputs drawn from them *)

MaxInt  == 1    \* integer field values range over -MaxInt..MaxInt
MaxLen  == 2    \* longest list
MaxElem == 2    \* list elements range over 1..MaxElem
MaxKey  == 2    \* map keys range over 1..MaxKey, map values over 1..2

\* full type names, as byte strings: NameC is a strict prefix of NameB and
\* NameB sorts below NameA
NameA == <<2>>
NameB == <<1, 2>>
NameC == <<1>>
NameN == <<3>>

TypeNames == {NameA, NameB, NameC}

I32(n) == [k |-> "int", w |-> 32, n |-> n]
I64(n) == [k |-> "int", w |-> 64, n |-> n]
F64(c, n) == [k |-> "float", w |-> 64, c |-> c, n |-> n]
F32(c, n) == [k |-> "float", w |-> 32, c |-> c, n |-> n]
Bytes(s) == [k |-> "bytes", s |-> s, nil |-> FALSE]
NilBytes == [k |-> "bytes", s |-> <<>>, nil |-> TRUE]
ListOf(s) == [k |-> "list", s |-> s]
MapOf(s) == [k |-> "map", s |-> s]
Field(num, v) == [num |-> num, val |-> v]
Entry(key, v) == [key |-> key, val |-> v]
Unknown(num, wt, payload) == [num |-> num, wt |-> wt, payload |-> payload]
Msg(t, f, u) == [valid |-> TRUE, type |-> t, fields |-> f, unknown |-> u]

IntVals == (0 - MaxInt)..MaxInt
ElemVals == 1..MaxElem
KeyVals == 1..MaxKey

\* an optional field: absent, or present with one of the values
Optional(num, vals) == {<<>>} \cup {<<Field(num, v)>> : v \in vals}

\* all sequences over S of length 1..n
SeqsUpTo(S, n) == UNION {[1..l -> S] : l \in 1..n}

\* type A: 1 optional int32, 2 optional int64, 3 repeated int32,
\* 4 map<int32,int32>, 5 optional double, 6 optional nested message,
\* 7 optional int32
ScalarMsgs ==
    {Msg(NameA, f1 \o f2, <<>>) :
        f1 \in Optional(1, {I32(n) : n \in IntVals}),
        f2 \in Optional(2, {I64(n) : n \in IntVals})}

IntList(s) == ListOf([i \in DOMAIN s |-> I32(s[i])])

ListMsgs ==
    {Msg(NameA, <<Field(3, IntList(s))>>, <<>>) :
        s \in SeqsUpTo(ElemVals, MaxLen) \cup {<<7>>}}

\* maps in every storage order: one or two entries with distinct keys
MapSeqs ==
    {s \in SeqsUpTo({Entry(I32(k), I32(v)) : k \in KeyVals, v \in 1..2}, 2) :
        \A i, j \in DOMAIN s : i # j => s[i].key # s[j].key}

MapMsgs == {Msg(NameA, <<Field(4, MapOf(s))>>, <<>>) : s \in MapSeqs}

FloatVals ==
    {F64("nan", 0), F64("ninf", 0), F64("pinf", 0)} \cup {F64("num", n) : n \in 0..1}

FloatMsgs == {Msg(NameA, <<Field(5, v)>>, <<>>) : v \in FloatVals}

NestedMsgs ==
    {Msg(NameA, f1 \o f6 \o f7, <<>>) :
        f1 \in Optional(1, {I32(0)}),
        f6 \in Optional(6, {ValueOfMessage(Msg(NameN, f, <<>>)) :
                               f \in Optional(1, {I32(n) : n \in 0..1})}),
        f7 \in Optional(7, {I32(0)})}

UnknownEntries ==
    {Unknown(num, wt, p) :
        num \in {100, 101}, wt \in {"varint", "fixed32"}, p \in {<<1>>, <<2>>, <<1, 1>>}}

UnknownMsgs ==
    {Msg(NameA, f1, <<e>>) :
        f1 \in Optional(1, {I32(0), I32(1)}), e \in UnknownEntries}
    \cup {Msg(NameA, <<>>, <<Unknown(100, "varint", <<1>>), e>>) :
            e \in {Unknown(100, "varint", <<2>>), Unknown(101, "varint", <<1>>)}}

RECURSIVE encodeVarint(_)
\* protopack.Varint(n).Marshal(): base-128 digits, least significant
\* first, every byte but the last with the continuation bit 128 set
encodeVarint(n) ==
    IF n < 128 THEN <<n>>
    ELSE <<128 + (n % 128)>> \o encodeVarint(n \div 128)

\* unknown varint fields holding one- and two-byte encodings
VarintVals == {1, 2, 127, 128, 129, 256, 300}

VarintMsgs ==
    {Msg(NameA, <<>>, <<Unknown(100, "varint", encodeVarint(n))>>) : n \in VarintVals}

OtherTypeMsgs ==
    {Msg(NameB, f1, <<>>) : f1 \in Optional(1, {I32(0)})} \cup {Msg(NameC, <<>>, <<>>)}

MsgUniverse ==
    ScalarMsgs \cup ListMsgs \cup MapMsgs \cup FloatMsgs \cup NestedMsgs
        \cup UnknownMsgs \cup VarintMsgs \cup OtherTypeMsgs

EmptyA == Msg(NameA, <<>>, <<>>)

\* every message of the universe at its own address, and a second
\* allocation of the empty message (new(T) twice)
Addrs == {<<m, 1>> : m \in MsgUniverse} \cup {<<EmptyA, 2>>}

\* the heap: what is stored at each address
HeapImage == [a \in Addrs |-> a[1]]

\* addresses that are also reached through an incomparable wrapper
WrapMsgs ==
    {EmptyA,
     Msg(NameA, <<Field(1, I32(1))>>, <<>>),
     Msg(NameA, <<Field(5, F64("nan", 0))>>, <<>>),
     Msg(NameA, <<Field(4, MapOf(<<Entry(I32(2), I32(1)), Entry(I32(1), I32(2))>>))>>, <<>>)}

WrapAddrs == {a \in Addrs : HeapImage[a] \in WrapMsgs}

Handles ==
    {NilHandle}
        \cup {PtrHandle(t, NilAddr) : t \in TypeNames}
        \cup {WrapHandle(NameA, NilAddr)}
        \cup {PtrHandle(HeapImage[a].type, a) : a \in Addrs}
        \cup {WrapHandle(HeapImage[a].type, a) : a \in WrapAddrs}
        \cup {PtrWrapHandle(HeapImage[a].type, a) : a \in WrapAddrs}

\* the handles the three-operand properties are checked over
Msgs3 ==
    {m \in ScalarMsgs : \A i \in DOMAIN m.fields : m.fields[i].val.n \in 0..1}
        \cup {Msg(NameA, <<Field(3, IntList(s))>>, <<>>) : s \in {<<2>>, <<1, 1>>, <<1, 2>>}}
        \cup {Msg(NameA, <<Field(4, MapOf(s))>>, <<>>) :
                s \in {<<Entry(I32(2), I32(1))>>,
                       <<Entry(I32(1), I32(1)), Entry(I32(2), I32(1))>>,
                       <<Entry(I32(2), I32(1)), Entry(I32(1), I32(1))>>,
                       <<Entry(I32(2), I32(1)), Entry(I32(1), I32(2))>>}}
        \cup {Msg(NameA, <<Field(5, v)>>, <<>>) : v \in {F64("nan", 0), F64("num", 0)}}
        \cup {Msg(NameA, f1, <<Unknown(100, "varint", <<1>>)>>) :
                f1 \in Optional(1, {I32(1)})}
        \cup OtherTypeMsgs

Handles3 ==
    {h \in Handles : h = NilHandle \/ h.target = NilAddr \/ HeapImage[h.target] \in Msgs3}

-----------------------------------------------------------------------------
(* The caller: holds handles, calls Compare, LessThan or Equal once *)

InitCommon ==
    /\ heap = HeapImage
    /\ pc = "idle"
    /\ cmpRet = 0
    /\ lessRet = FALSE
    /\ eqRet = FALSE
    /\ valRet = 0

\* two operands from the full universe
Init ==
    /\ x \in Handles
    /\ y \in Handles
    /\ z = NilHandle
    /\ vx = [k |-> "invalid"]
    /\ vy = [k |-> "invalid"]
    /\ InitCommon

\* three operands from the smaller universe
Init3 ==
    /\ x \in Handles3
    /\ y \in Handles3
    /\ z \in Handles3
    /\ vx = [k |-> "invalid"]
    /\ vy = [k |-> "invalid"]
    /\ InitCommon

\* the message with every map field stored in key order
sortedInPlace(m) ==
    [m EXCEPT !.fields =
        [i \in DOMAIN m.fields |->
            IF m.fields[i].val.k = "map"
            THEN Field(m.fields[i].num, MapOf(sortEntries(m.fields[i].val.s)))
            ELSE m.fields[i]]]

\* the addresses of the messages behind the two operands
OperandAddrs ==
    {h.target : h \in {h \in {x, y} : h # NilHandle}} \ {NilAddr}

\* CallCompare with the map canonicalisation sorting the operands' own
\* maps instead of a copy
CallCompareSortsInPlace ==
    /\ pc = "idle"
    /\ IF ComparePanics(x, y)
       THEN pc' = "panicked" /\ cmpRet' = cmpRet
       ELSE pc' = "compared" /\ cmpRet' = Compare(x, y)
    /\ heap' = [a \in DOMAIN heap |->
                  IF a \in OperandAddrs THEN sortedInPlace(heap[a]) ELSE heap[a]]
    /\ UNCHANGED <<x, y, z, lessRet, eqRet, vx, vy, valRet>>

\* r := Compare(x, y); the messages are only read
CallCompare ==
    /\ pc = "idle"
    /\ IF ComparePanics(x, y)
       THEN pc' = "panicked" /\ cmpRet' = cmpRet
       ELSE pc' = "compared" /\ cmpRet' = Compare(x, y)
    /\ UNCHANGED <<x, y, z, heap, lessRet, eqRet, vx, vy, valRet>>

\* r := LessThan(x, y)
CallLessThan ==
    /\ pc = "idle"
    /\ IF ComparePanics(x, y)
       THEN pc' = "panicked" /\ lessRet' = lessRet
       ELSE pc' = "lessed" /\ lessRet' = LessThan(x, y)
    /\ UNCHANGED <<x, y, z, heap, cmpRet, eqRet, vx, vy, valRet>>

\* r := Equal(x, y)
CallEqual ==
    /\ pc = "idle"
    /\ pc' = "equaled"
    /\ eqRet' = Equal(x, y)
    /\ UNCHANGED <<x, y, z, heap, cmpRet, lessRet, vx, vy, valRet>>

Next == CallCompare \/ CallLessThan \/ CallEqual

Spec == Init /\ [][Next]_vars

Spec3 == Init3 /\ [][Next]_vars

\* the Values a caller of Value.Compare holds: every kind, each with more
\* than one payload
ValueUniverse ==
    {[k |-> "invalid"]}
        \cup {[k |-> "bool", b |-> b] : b \in BOOLEAN}
        \cup {I32(n) : n \in IntVals} \cup {I64(n) : n \in IntVals}
        \cup {[k |-> "uint", w |-> w, n |-> n] : w \in {32, 64}, n \in 0..MaxInt}
        \cup {[k |-> "uint", w |-> 64, n |-> n] :
                n \in {UintTop \div 2 - 1, UintTop \div 2, UintTop - 1}}
        \cup FloatVals
        \cup {F32(v.c, v.n) : v \in FloatVals}
        \cup {[k |-> "string", s |-> s] : s \in {<<>>, <<1>>, <<2>>, <<1, 2>>}}
        \cup {Bytes(s) : s \in {<<>>, <<1>>, <<2>>, <<1, 2>>}}
        \cup {NilBytes}
        \cup {[k |-> "enum", n |-> n] : n \in 0..MaxInt}
        \cup {ListOf(<<>>), IntList(<<1>>), IntList(<<1, 2>>)}
        \cup {MapOf(<<>>), MapOf(<<Entry(I32(1), I32(1))>>)}
        \cup {ValueOfMessage(EmptyA),
              ValueOfMessage(Msg(NameA, <<Field(1, I32(0))>>, <<>>))}

\* two Values, no message handle
InitV ==
    /\ x = NilHandle
    /\ y = NilHandle
    /\ z = NilHandle
    /\ vx \in ValueUniverse
    /\ vy \in ValueUniverse
    /\ InitCommon

\* r := vx.Compare(vy)
CallValueCompare ==
    /\ pc = "idle"
    /\ pc' = "valcompared"
    /\ valRet' = compareValue(vx, vy)
    /\ UNCHANGED <<x, y, z, heap, cmpRet, lessRet, eqRet, vx, vy>>

NextV == CallValueCompare

SpecV == InitV /\ [][NextV]_vars

TypeOK ==
    /\ pc \in {"idle", "compared", "lessed", "equaled", "panicked",
              "valcompared"}
    /\ cmpRet \in {-1, 0, 1}
    /\ valRet \in {-1, 0, 1}
    /\ Cardinality(Handles) > 0

-----------------------------------------------------------------------------
(* Properties *)

NonNil(h) == h # NilHandle

\* h is a present handle whose message is invalid (a typed nil pointer)
IsInvalidPresent(h) == NonNil(h) /\ ~IsValid(ProtoReflect(h))

\* h is a present handle of a valid message
IsValidHandle(h) == NonNil(h) /\ IsValid(ProtoReflect(h))

\* sign of the byte-wise lexicographic order of two byte strings, stated
\* with quantifiers: a is below b when it is smaller at the first index
\* where they differ, or when it is a strict prefix of b
ByteLexLess(a, b) ==
    \/ \E i \in 1..Len(a) :
          /\ i <= Len(b)
          /\ a[i] < b[i]
          /\ \A j \in 1..(i - 1) : a[j] = b[j]
    \/ /\ Len(a) < Len(b)
       /\ \A j \in 1..Len(a) : a[j] = b[j]

ByteLexSign(a, b) ==
    IF ByteLexLess(a, b) THEN -1 ELSE IF ByteLexLess(b, a) THEN 1 ELSE 0

FieldNums(m) == {m.fields[i].num : i \in DOMAIN m.fields}

FieldVal(m, n) == m.fields[CHOOSE i \in DOMAIN m.fields : m.fields[i].num = n].val

\* the two messages have the same presence and equal values at every field
\* number below n
AgreeBelow(mx, my, n) ==
    \A k \in FieldNums(mx) \cup FieldNums(my) :
        k < n => /\ k \in FieldNums(mx)
                 /\ k \in FieldNums(my)
                 /\ equalValue(FieldVal(mx, k), FieldVal(my, k))

\* C1: Compare(x, y) returns 0 if and only if Equal(x, y) holds, for all
\* handles: nil, invalid and valid, of any type.
C1_CompareZeroIffEqual ==
    /\ (Compare(x, y) = 0) <=> Equal(x, y)
    /\ pc = "compared" => ((cmpRet = 0) <=> Equal(x, y))
    /\ pc = "equaled" => (eqRet <=> (Compare(x, y) = 0))

\* Compare returned 0 for two distinct allocations whose stored contents
\* differ (the same map in two storage orders)
C1_Witness ==
    /\ pc = "compared"
    /\ cmpRet = 0
    /\ IsValidHandle(x)
    /\ IsValidHandle(y)
    /\ x.target # y.target
    /\ heap[x.target] # heap[y.target]

\* C2: swapping the arguments negates the result:
\* Compare(x, y) = -Compare(y, x).
C2_Antisymmetry ==
    /\ Compare(x, y) = 0 - Compare(y, x)
    /\ pc = "compared" => cmpRet = 0 - Compare(y, x)

C2_Witness ==
    /\ pc = "compared"
    /\ cmpRet = 1
    /\ IsValidHandle(x)
    /\ IsValidHandle(y)
    /\ ProtoReflect(x).type = ProtoReflect(y).type
    /\ Compare(y, x) = -1

\* C3: if LessThan(x, y) is false and LessThan(y, z) is false then
\* LessThan(x, z) is false.
C3_Transitivity ==
    /\ (~LessThan(x, y) /\ ~LessThan(y, z)) => ~LessThan(x, z)
    /\ (pc = "lessed" /\ ~lessRet /\ ~LessThan(y, z)) => ~LessThan(x, z)

C3_Witness ==
    /\ pc = "lessed"
    /\ ~lessRet
    /\ IsValidHandle(x)
    /\ IsValidHandle(y)
    /\ IsValidHandle(z)
    /\ Compare(x, y) = 1
    /\ Compare(y, z) = 1
    /\ Compare(x, z) = 1

\* C4: for every handle h, LessThan(h, h) is false and Compare(h, h) is 0,
\* whatever the message holds.
C4_Irreflexive ==
    /\ ~LessThan(x, x)
    /\ Compare(x, x) = 0
    /\ (x = y /\ pc = "lessed") => ~lessRet
    /\ (x = y /\ pc = "compared") => cmpRet = 0

\* a handle compared with itself by the full algorithm (no pointer
\* short-circuit) over a message holding a NaN
C4_Witness ==
    /\ pc = "compared"
    /\ x = y
    /\ NonNil(x)
    /\ x.rep = "struct"
    /\ ProtoReflect(x).fields = <<Field(5, F64("nan", 0))>>
    /\ cmpRet = 0

\* C5: LessThan(x, y) is true exactly when Compare(x, y) = -1 and false
\* when Compare(x, y) is 0 or 1.
C5_LessThanIsMinusOne ==
    /\ pc = "lessed" => (lessRet <=> (Compare(x, y) = -1))
    /\ (pc = "lessed" /\ Compare(x, y) \in {0, 1}) => ~lessRet

C5_Witness ==
    /\ pc = "lessed"
    /\ lessRet
    /\ IsValidHandle(x)
    /\ IsValidHandle(y)
    /\ Compare(x, y) = -1

\* C6: Compare is total: on every pair of handles it returns (it never
\* panics) and what it returns is -1, 0 or 1.
C6_Total ==
    /\ pc # "panicked"
    /\ ~ComparePanics(x, y)
    /\ Compare(x, y) \in {-1, 0, 1}
    /\ pc = "compared" => cmpRet \in {-1, 0, 1}

\* Compare returned on two handles of the same incomparable dynamic type
C6_Witness ==
    /\ pc = "compared"
    /\ NonNil(x)
    /\ NonNil(y)
    /\ x.rep = "struct"
    /\ y.rep = "struct"
    /\ x.dyn = y.dyn
    /\ x.target # y.target
    /\ cmpRet \in {-1, 1}

\* C7: the nil handle is the least value: Compare(nil, nil) = 0, and for
\* every non-nil y, Compare(nil, y) = -1 and Compare(y, nil) = 1.
C7_NilLeast ==
    /\ (x = NilHandle /\ y = NilHandle) => Compare(x, y) = 0
    /\ (x = NilHandle /\ NonNil(y)) => (Compare(x, y) = -1 /\ Compare(y, x) = 1)
    /\ (pc = "compared" /\ x = NilHandle) => cmpRet = (IF y = NilHandle THEN 0 ELSE -1)
    /\ (pc = "compared" /\ NonNil(x) /\ y = NilHandle) => cmpRet = 1

\* nil against a typed nil pointer
C7_Witness ==
    /\ pc = "compared"
    /\ x = NilHandle
    /\ IsInvalidPresent(y)
    /\ cmpRet = -1

\* C8: an invalid-but-present handle is below every valid message, whatever
\* the type names and even when the valid message is empty.
C8_ValidityBeforeType ==
    /\ (IsInvalidPresent(x) /\ IsValidHandle(y)) =>
          (Compare(x, y) = -1 /\ Compare(y, x) = 1)
    /\ (pc = "compared" /\ IsInvalidPresent(x) /\ IsValidHandle(y)) => cmpRet = -1
    /\ (pc = "compared" /\ IsValidHandle(x) /\ IsInvalidPresent(y)) => cmpRet = 1

\* the invalid handle has the greater type name, the valid message is empty
C8_Witness ==
    /\ pc = "compared"
    /\ IsInvalidPresent(x)
    /\ x.dyn[2] = NameA
    /\ IsValidHandle(y)
    /\ ProtoReflect(y) = Msg(NameB, <<>>, <<>>)
    /\ cmpRet = -1

\* C9: for two present handles of equal validity whose type names differ,
\* Compare is the sign of the byte-wise lexicographic comparison of the
\* names, whatever fields they hold; two invalid handles of one type
\* compare 0.
C9_TypeNameOrder ==
    /\ (NonNil(x) /\ NonNil(y)
          /\ IsValid(ProtoReflect(x)) = IsValid(ProtoReflect(y))
          /\ ProtoReflect(x).type # ProtoReflect(y).type) =>
       /\ Compare(x, y) = ByteLexSign(ProtoReflect(x).type, ProtoReflect(y).type)
       /\ Compare(x, y) # 0
       /\ pc = "compared" => cmpRet = Compare(x, y)
    /\ (IsInvalidPresent(x) /\ IsInvalidPresent(y)
          /\ ProtoReflect(x).type = ProtoReflect(y).type) => Compare(x, y) = 0

\* the message with no field has the greater name and compares greater
C9_Witness ==
    /\ pc = "compared"
    /\ IsValidHandle(x)
    /\ IsValidHandle(y)
    /\ ProtoReflect(x) = Msg(NameA, <<>>, <<>>)
    /\ ProtoReflect(y) = Msg(NameB, <<Field(1, I32(0))>>, <<>>)
    /\ cmpRet = 1

\* C10 as stated: for two valid messages of one type that agree on all
\* lower-numbered fields, if a field is present in exactly one of them,
\* the message without the field is strictly less.
C10_AbsentIsLess ==
    (IsValidHandle(x) /\ IsValidHandle(y)
        /\ ProtoReflect(x).type = ProtoReflect(y).type) =>
    \A n \in FieldNums(ProtoReflect(y)) \ FieldNums(ProtoReflect(x)) :
        AgreeBelow(ProtoReflect(x), ProtoReflect(y), n) =>
            (Compare(x, y) = -1 /\ Compare(y, x) = 1)

\* C10 amended: for two valid messages of one type that agree on all
\* lower-numbered fields, if a field is present in exactly one of them and
\* the message without it has no higher-numbered field either, the message
\* without the field is strictly less, whatever the present value is.
C10_AbsentIsLessNoHigher ==
    (IsValidHandle(x) /\ IsValidHandle(y)
        /\ ProtoReflect(x).type = ProtoReflect(y).type) =>
    \A n \in FieldNums(ProtoReflect(y)) \ FieldNums(ProtoReflect(x)) :
        (/\ AgreeBelow(ProtoReflect(x), ProtoReflect(y), n)
         /\ \A k \in FieldNums(ProtoReflect(x)) : k < n) =>
            /\ Compare(x, y) = -1
            /\ Compare(y, x) = 1
            /\ pc = "compared" => cmpRet = -1

\* field 2 present with the zero value on one side only, field 1 equal
C10_Witness ==
    /\ pc = "compared"
    /\ IsValidHandle(x)
    /\ IsValidHandle(y)
    /\ ProtoReflect(x) = Msg(NameA, <<Field(1, I32(0))>>, <<>>)
    /\ ProtoReflect(y) = Msg(NameA, <<Field(1, I32(0)), Field(2, I64(0))>>, <<>>)
    /\ cmpRet = -1

\* the field numbers at which two messages differ in presence or in value
DiffNums(mx, my) ==
    {n \in FieldNums(mx) \cup FieldNums(my) :
        ~(/\ n \in FieldNums(mx)
          /\ n \in FieldNums(my)
          /\ equalValue(FieldVal(mx, n), FieldVal(my, n)))}

LowestDiff(mx, my) ==
    CHOOSE n \in DiffNums(mx, my) : \A k \in DiffNums(mx, my) : n <= k

\* the two messages have the same presence and equal values at every field
\* number up to and including n
AgreeUpTo(mx, my, n) ==
    \A k \in FieldNums(mx) \cup FieldNums(my) : k <= n => k \notin DiffNums(mx, my)

SameTypeValid3 ==
    /\ IsValidHandle(x) /\ IsValidHandle(y) /\ IsValidHandle(z)
    /\ ProtoReflect(x).type = ProtoReflect(y).type
    /\ ProtoReflect(x).type = ProtoReflect(z).type

\* C11 as stated: for two valid messages of one type the result is decided
\* by the lowest field number at which they differ in presence or value:
\* replacing y by any z that agrees with y up to that number, whatever z
\* holds at higher numbers and in its undecoded fields, leaves the result
\* unchanged.
C11_LowestDifferenceDecides ==
    (SameTypeValid3 /\ DiffNums(ProtoReflect(x), ProtoReflect(y)) # {}) =>
        (AgreeUpTo(ProtoReflect(y), ProtoReflect(z),
                   LowestDiff(ProtoReflect(x), ProtoReflect(y)))
            => Compare(x, z) = Compare(x, y))

\* C11 amended: for valid messages of one type that populate the same
\* field numbers, the result is the comparison of the values at the lowest
\* number at which the values differ; differences at higher numbers and in
\* undecoded fields never change it.
C11_SameFieldsLowestValueDecides ==
    (/\ SameTypeValid3
     /\ FieldNums(ProtoReflect(x)) = FieldNums(ProtoReflect(y))
     /\ FieldNums(ProtoReflect(x)) = FieldNums(ProtoReflect(z))
     /\ DiffNums(ProtoReflect(x), ProtoReflect(y)) # {}) =>
        LET n == LowestDiff(ProtoReflect(x), ProtoReflect(y))
            c == compareValue(FieldVal(ProtoReflect(x), n), FieldVal(ProtoReflect(y), n))
        IN  /\ c # 0
            /\ Compare(x, y) = c
            /\ pc = "compared" => cmpRet = c
            /\ AgreeUpTo(ProtoReflect(y), ProtoReflect(z), n) => Compare(x, z) = c

\* field 1 decides (0 below 1) although field 2 differs the other way, and
\* z differs from y at field 2 only
C11_Witness ==
    /\ pc = "compared"
    /\ cmpRet = -1
    /\ IsValidHandle(x) /\ IsValidHandle(y) /\ IsValidHandle(z)
    /\ ProtoReflect(x) = Msg(NameA, <<Field(1, I32(0)), Field(2, I64(1))>>, <<>>)
    /\ ProtoReflect(y) = Msg(NameA, <<Field(1, I32(1)), Field(2, I64(0))>>, <<>>)
    /\ ProtoReflect(z) = Msg(NameA, <<Field(1, I32(1)), Field(2, I64(1))>>, <<>>)

\* numeric order of two floats that are not NaN: -Inf below every other
\* value, +Inf above every other value, finite values by magnitude
FloatNumLess(a, b) ==
    \/ a.c = "ninf" /\ b.c # "ninf"
    \/ b.c = "pinf" /\ a.c # "pinf"
    \/ a.c = "num" /\ b.c = "num" /\ a.n < b.n

\* the message holds exactly the double field, and nothing else
OnlyFloat(m) ==
    /\ m.type = NameA
    /\ m.unknown = <<>>
    /\ Len(m.fields) = 1
    /\ m.fields[1].num = 5

\* C12: NaN compares equal to NaN and strictly less than every non-NaN
\* value, -Inf included; two non-NaN values compare by numeric order.
C12_FloatOrder ==
    (IsValidHandle(x) /\ IsValidHandle(y)
        /\ OnlyFloat(ProtoReflect(x)) /\ OnlyFloat(ProtoReflect(y))) =>
    LET a == ProtoReflect(x).fields[1].val
        b == ProtoReflect(y).fields[1].val
        want == IF a.c = "nan" /\ b.c = "nan" THEN 0
                ELSE IF a.c = "nan" THEN -1
                ELSE IF b.c = "nan" THEN 1
                ELSE IF FloatNumLess(a, b) THEN -1
                ELSE IF FloatNumLess(b, a) THEN 1
                ELSE 0
    IN  /\ Compare(x, y) = want
        /\ compareValue(a, b) = want
        /\ pc = "compared" => cmpRet = want

\* NaN against -Inf: NaN is the lesser
C12_Witness ==
    /\ pc = "compared"
    /\ cmpRet = -1
    /\ IsValidHandle(x)
    /\ IsValidHandle(y)
    /\ ProtoReflect(x) = Msg(NameA, <<Field(5, F64("nan", 0))>>, <<>>)
    /\ ProtoReflect(y) = Msg(NameA, <<Field(5, F64("ninf", 0))>>, <<>>)

\* the message holds exactly the repeated field, and nothing else
OnlyList(m) ==
    /\ m.type = NameA
    /\ m.unknown = <<>>
    /\ Len(m.fields) = 1
    /\ m.fields[1].num = 3

\* the elements of the repeated field
Elems(h) == ProtoReflect(h).fields[1].val.s

BothLists ==
    /\ IsValidHandle(x) /\ IsValidHandle(y)
    /\ OnlyList(ProtoReflect(x)) /\ OnlyList(ProtoReflect(y))

\* the indices both lists have at which their elements differ
SharedDiffs(a, b) == {i \in DOMAIN a \cap DOMAIN b : a[i].n # b[i].n}

FirstSharedDiff(a, b) ==
    CHOOSE i \in SharedDiffs(a, b) : \A j \in SharedDiffs(a, b) : i <= j

\* C13 as stated: for two lists, of equal or different length, that differ
\* at some shared index, the result is the sign of the comparison at the
\* first such index; the lengths play no part.
C13_FirstDifferenceDecides ==
    (BothLists /\ SharedDiffs(Elems(x), Elems(y)) # {}) =>
        LET i == FirstSharedDiff(Elems(x), Elems(y))
        IN  Compare(x, y) = cmpInt(Elems(x)[i].n, Elems(y)[i].n)

\* C13 amended: for two lists of equal length that differ at some index,
\* the result is the sign of the comparison at the first such index.
C13_FirstDifferenceDecidesEqualLen ==
    (BothLists /\ Len(Elems(x)) = Len(Elems(y))
        /\ SharedDiffs(Elems(x), Elems(y)) # {}) =>
        LET i == FirstSharedDiff(Elems(x), Elems(y))
            c == cmpInt(Elems(x)[i].n, Elems(y)[i].n)
        IN  /\ Compare(x, y) = c
            /\ pc = "compared" => cmpRet = c

\* [1, 2] against [2, 1]: index 1 decides although index 2 differs the
\* other way
C13_Witness ==
    /\ pc = "compared"
    /\ cmpRet = -1
    /\ BothLists
    /\ Elems(x) = IntList(<<1, 2>>).s
    /\ Elems(y) = IntList(<<2, 1>>).s

\* a valid message of type A that holds at most the repeated field; a
\* repeated field with no element is an unpopulated field
IsListMsg(h) ==
    /\ IsValidHandle(h)
    /\ (OnlyList(ProtoReflect(h)) \/ ProtoReflect(h) = EmptyA)

ElemsOrEmpty(h) == IF ProtoReflect(h) = EmptyA THEN <<>> ELSE Elems(h)

\* a is a strict prefix of b
StrictPrefix(a, b) ==
    /\ Len(a) < Len(b)
    /\ \A i \in DOMAIN a : compareValue(a[i], b[i]) = 0

\* C14: a list that is a strict prefix of another is less than it; two
\* lists compare 0 only when they have the same length and every pair of
\* elements at the same index compares 0.
C14_PrefixIsLess ==
    (IsListMsg(x) /\ IsListMsg(y)) =>
        LET a == ElemsOrEmpty(x)
            b == ElemsOrEmpty(y)
        IN  /\ StrictPrefix(a, b) =>
                /\ Compare(x, y) = -1
                /\ Compare(y, x) = 1
                /\ pc = "compared" => cmpRet = -1
            /\ (Compare(x, y) = 0) <=>
                    /\ Len(a) = Len(b)
                    /\ \A i \in DOMAIN a : compareValue(a[i], b[i]) = 0

\* [1] against [1, 2]
C14_Witness ==
    /\ pc = "compared"
    /\ cmpRet = -1
    /\ BothLists
    /\ Elems(x) = IntList(<<1>>).s
    /\ Elems(y) = IntList(<<1, 2>>).s

\* C15: the one-element list [7] compares -1 against the two-element list
\* [1, 2], and [1, 2] compares 1 against [7].
C15_SevenBelowOneTwo ==
    (BothLists /\ Elems(x) = IntList(<<7>>).s /\ Elems(y) = IntList(<<1, 2>>).s) =>
        /\ Compare(x, y) = -1
        /\ Compare(y, x) = 1
        /\ LessThan(x, y)
        /\ ~LessThan(y, x)
        /\ pc = "compared" => cmpRet = -1
        /\ pc = "lessed" => lessRet

\* Compare has returned for [7] against [1, 2]
C15_Witness ==
    /\ pc = "compared"
    /\ BothLists
    /\ Elems(x) = IntList(<<7>>).s
    /\ Elems(y) = IntList(<<1, 2>>).s
    /\ cmpRet = -1

\* the message holds exactly the map field, and nothing else
OnlyMap(m) ==
    /\ m.type = NameA
    /\ m.unknown = <<>>
    /\ Len(m.fields) = 1
    /\ m.fields[1].num = 4

IsMapMsg(h) == IsValidHandle(h) /\ OnlyMap(ProtoReflect(h))

\* the entries of the map field as stored
Stored(h) == ProtoReflect(h).fields[1].val.s

\* the set of entries of the map field
EntrySet(h) == {Stored(h)[i] : i \in DOMAIN Stored(h)}

\* C16: the result of comparing maps depends only on their sets of
\* entries: two maps with the same entries in different storage order
\* compare 0 with each other and compare the same against any third
\* operand, on either side.
C16_MapOrderIndependent ==
    (IsMapMsg(x) /\ IsMapMsg(z) /\ EntrySet(x) = EntrySet(z)) =>
        /\ Compare(x, z) = 0
        /\ Compare(x, y) = Compare(z, y)
        /\ Compare(y, x) = Compare(y, z)
        /\ pc = "compared" => cmpRet = Compare(z, y)
        /\ pc = "lessed" => lessRet = LessThan(z, y)

\* x and z hold the same two entries in opposite storage order; y is a
\* different map
C16_Witness ==
    /\ pc = "compared"
    /\ IsMapMsg(x) /\ IsMapMsg(y) /\ IsMapMsg(z)
    /\ Stored(x) = <<Entry(I32(1), I32(1)), Entry(I32(2), I32(1))>>
    /\ Stored(z) = <<Entry(I32(2), I32(1)), Entry(I32(1), I32(1))>>
    /\ Stored(y) = <<Entry(I32(2), I32(1)), Entry(I32(1), I32(2))>>
    /\ cmpRet = -1
    /\ Compare(z, y) = -1

\* the entries of the map field in ascending key order
SortedEntries(h) ==
    CHOOSE s \in [1..Cardinality(EntrySet(h)) -> EntrySet(h)] :
        \A i, j \in DOMAIN s : i < j => s[i].key.n < s[j].key.n

\* entry e is below entry f: by key first, by value when the keys tie
EntryLess(e, f) ==
    \/ e.key.n < f.key.n
    \/ e.key.n = f.key.n /\ e.val.n < f.val.n

\* sequence a is lexicographically below sequence b: below at the first
\* index where they differ, or a strict prefix of b
EntriesLexLess(a, b) ==
    \/ \E i \in DOMAIN a \cap DOMAIN b :
          /\ EntryLess(a[i], b[i])
          /\ \A j \in 1..(i - 1) : a[j] = b[j]
    \/ /\ Len(a) < Len(b)
       /\ \A j \in DOMAIN a : a[j] = b[j]

EntriesLexSign(a, b) ==
    IF EntriesLexLess(a, b) THEN -1 ELSE IF EntriesLexLess(b, a) THEN 1 ELSE 0

\* a is a strict prefix of b
EntriesStrictPrefix(a, b) ==
    /\ Len(a) < Len(b)
    /\ \A j \in DOMAIN a : a[j] = b[j]

Known(m) == [m EXCEPT !.unknown = <<>>]

\* result of comparing the known fields of two valid messages of one type
KnownCmp(mx, my) ==
    compareValue([k |-> "msg", m |-> Known(mx)], [k |-> "msg", m |-> Known(my)])

\* C18: undecoded fields are compared only after every known field ties:
\* when the known fields of two valid messages of one type differ, they
\* alone give the result; when they tie, a message with no undecoded entry
\* is strictly less than one with at least one entry, and two messages with
\* identical undecoded entries compare 0.
C18_UnknownAfterKnown ==
    (IsValidHandle(x) /\ IsValidHandle(y)
        /\ ProtoReflect(x).type = ProtoReflect(y).type) =>
        LET mx == ProtoReflect(x)
            my == ProtoReflect(y)
        IN  /\ KnownCmp(mx, my) # 0 =>
                /\ Compare(x, y) = KnownCmp(mx, my)
                /\ pc = "compared" => cmpRet = KnownCmp(mx, my)
            /\ (KnownCmp(mx, my) = 0 /\ mx.unknown = <<>> /\ my.unknown # <<>>) =>
                /\ Compare(x, y) = -1
                /\ Compare(y, x) = 1
                /\ pc = "compared" => cmpRet = -1
            /\ (KnownCmp(mx, my) = 0 /\ mx.unknown = my.unknown) =>
                /\ Compare(x, y) = 0
                /\ pc = "compared" => cmpRet = 0

\* equal known fields, undecoded entry on one side only
C18_Witness ==
    /\ pc = "compared"
    /\ IsValidHandle(x)
    /\ IsValidHandle(y)
    /\ ProtoReflect(x) = Msg(NameA, <<Field(1, I32(0))>>, <<>>)
    /\ ProtoReflect(y) = Msg(NameA, <<Field(1, I32(0))>>, <<Unknown(100, "varint", <<1>>)>>)
    /\ cmpRet = -1

\* the message holds no known field and exactly one undecoded entry
OnlyOneUnknown(h) ==
    /\ IsValidHandle(h)
    /\ ProtoReflect(h).type = NameA
    /\ ProtoReflect(h).fields = <<>>
    /\ Len(ProtoReflect(h).unknown) = 1

\* position of a wire category in the fixed order of categories
WireOrder == <<"varint", "fixed32", "fixed64", "bytes", "group">>

WirePos(wt) == CHOOSE i \in DOMAIN WireOrder : WireOrder[i] = wt

\* C19: two undecoded entries are ordered by field number, then by
\* wire-category rank (varint below fixed32), then by byte-wise comparison
\* of the payload, a strict prefix being less.
C19_UnknownEntryOrder ==
    (OnlyOneUnknown(x) /\ OnlyOneUnknown(y)) =>
        LET a == ProtoReflect(x).unknown[1]
            b == ProtoReflect(y).unknown[1]
            want == IF a.num # b.num THEN (IF a.num < b.num THEN -1 ELSE 1)
                    ELSE IF a.wt # b.wt
                         THEN (IF WirePos(a.wt) < WirePos(b.wt) THEN -1 ELSE 1)
                    ELSE ByteLexSign(a.payload, b.payload)
        IN  /\ Compare(x, y) = want
            /\ pc = "compared" => cmpRet = want
            /\ pc = "lessed" => (lessRet <=> want = -1)

\* same number, fixed32 against varint: the wire category decides against
\* the payload
C19_Witness ==
    /\ pc = "compared"
    /\ OnlyOneUnknown(x)
    /\ OnlyOneUnknown(y)
    /\ ProtoReflect(x).unknown[1] = Unknown(100, "fixed32", <<1>>)
    /\ ProtoReflect(y).unknown[1] = Unknown(100, "varint", <<2>>)
    /\ cmpRet = 1

\* the kinds from lowest to highest
KindOrder ==
    <<"invalid", "bool", "int", "uint", "float", "string", "bytes", "enum",
      "list", "map", "msg">>

KindPos(k) == CHOOSE i \in DOMAIN KindOrder : KindOrder[i] = k

\* C20: two Values of different kinds compare strictly by the fixed rank
\* Invalid < Bool < Int < Uint < Float < Text < Bytes < Enum < List < Map <
\* Msg, whatever their payloads are.
C20_KindRank ==
    vx.k # vy.k =>
        LET want == IF KindPos(vx.k) < KindPos(vy.k) THEN -1 ELSE 1
        IN  /\ compareValue(vx, vy) = want
            /\ compareValue(vy, vx) = 0 - want
            /\ pc = "valcompared" => valRet = want

\* a message with no field against a list of two elements
C20_Witness ==
    /\ pc = "valcompared"
    /\ vx = ValueOfMessage(EmptyA)
    /\ vy = IntList(<<1, 2>>)
    /\ valRet = 1

\* C21: the identical-pointer short-circuit is a pure optimisation:
\* whenever it fires, the full algorithm (validity, then the recursive
\* value comparison) returns 0 as well, so Compare returns on every pair of
\* non-nil handles what the full algorithm returns.
C21_ShortCircuitIsOptimisation ==
    (NonNil(x) /\ NonNil(y)) =>
        /\ identicalPointers(x, y) =>
            /\ CompareFull(x, y) = 0
            /\ Compare(x, y) = 0
        /\ Compare(x, y) = CompareFull(x, y)
        /\ pc = "compared" => cmpRet = CompareFull(x, y)

\* the short-circuit fired on a pointer to a message holding a NaN, on
\* which the full algorithm returns 0 too
C21_Witness ==
    /\ pc = "compared"
    /\ cmpRet = 0
    /\ IsValidHandle(x)
    /\ identicalPointers(x, y)
    /\ ProtoReflect(x).fields = <<Field(5, F64("nan", 0))>>
    /\ CompareFull(x, y) = 0

\* the handle is an incomparable wrapper held by value, not a pointer
IsWrapper(h) == NonNil(h) /\ h.rep = "struct"

\* C22: Compare never attempts an identity comparison on a handle whose
\* representation is not a pointer: with an incomparable wrapper on either
\* side, alone or mixed with a pointer, it does not fail and returns the
\* result of comparing the reflected messages, 0 when both handles wrap
\* the same message.
C22_NoIdentityOnNonPointers ==
    (NonNil(x) /\ NonNil(y) /\ (IsWrapper(x) \/ IsWrapper(y))) =>
        /\ IsWrapper(x) => ~identityAttempted(x, y)
        /\ ~identicalPointers(x, y)
        /\ ~ComparePanics(x, y)
        /\ pc # "panicked"
        /\ Compare(x, y) = CompareFull(x, y)
        /\ (x.target = y.target /\ x.target # NilAddr) => Compare(x, y) = 0
        /\ pc = "compared" => cmpRet = CompareFull(x, y)

\* a wrapper held by value against a pointer to the message it wraps
C22_Witness ==
    /\ pc = "compared"
    /\ IsWrapper(x)
    /\ KindIsPtr(y)
    /\ x.target = y.target
    /\ x.target # NilAddr
    /\ cmpRet = 0

\* C23: Compare and LessThan are read-only: no call, whatever its inputs
\* and its result, changes a handle or any message, list or map on the
\* heap.
C23_ReadOnly == [][heap' = heap /\ x' = x /\ y' = y /\ z' = z]_vars

\* Compare has returned on a map stored out of key order, and the map is
\* still stored that way
C23_Witness ==
    /\ pc = "compared"
    /\ IsMapMsg(x)
    /\ IsMapMsg(y)
    /\ heap[x.target].fields[1].val.s
           = <<Entry(I32(2), I32(1)), Entry(I32(1), I32(2))>>
    /\ sortedInPlace(heap[x.target]) # heap[x.target]
    /\ cmpRet # 0

\* sign of the natural order of two integers
NumSign(a, b) == IF a < b THEN -1 ELSE IF b < a THEN 1 ELSE 0

\* C24: two Values of the same kind among Bool, Int, Uint and Enum compare
\* by the natural order of their payloads: false below true, signed numeric
\* order for Int, unsigned numeric order over the whole unsigned range for
\* Uint, numeric order of the enum number for Enum.
C24_ScalarOrder ==
    (vx.k = vy.k /\ vx.k \in {"bool", "int", "uint", "enum"}) =>
        LET want == IF vx.k = "bool"
                    THEN (IF vx.b = vy.b THEN 0 ELSE IF vy.b THEN -1 ELSE 1)
                    ELSE NumSign(vx.n, vy.n)
        IN  /\ compareValue(vx, vy) = want
            /\ pc = "valcompared" => valRet = want

\* the largest unsigned value, whose top bit is set, against 1
C24_Witness ==
    /\ pc = "valcompared"
    /\ vx = [k |-> "uint", w |-> 64, n |-> UintTop - 1]
    /\ vy = [k |-> "uint", w |-> 64, n |-> 1]
    /\ valRet = 1

\* C25: Text and Bytes Values compare byte-wise lexicographically, a strict
\* prefix being less; a nil byte sequence compares 0 with an empty non-nil
\* byte sequence, in both argument orders.
C25_TextBytesOrder ==
    /\ (vx.k = vy.k /\ vx.k \in {"string", "bytes"}) =>
        /\ compareValue(vx, vy) = ByteLexSign(vx.s, vy.s)
        /\ pc = "valcompared" => valRet = ByteLexSign(vx.s, vy.s)
    /\ compareValue(NilBytes, Bytes(<<>>)) = 0
    /\ compareValue(Bytes(<<>>), NilBytes) = 0
    /\ (vx = NilBytes /\ vy = Bytes(<<>>) /\ pc = "valcompared") => valRet = 0
    /\ (vx = Bytes(<<>>) /\ vy = NilBytes /\ pc = "valcompared") => valRet = 0

\* nil against the empty non-nil byte sequence
C25_Witness ==
    /\ pc = "valcompared"
    /\ vx = NilBytes
    /\ vy = Bytes(<<>>)
    /\ vx # vy
    /\ valRet = 0

\* sign of the order of two floats by value: NaN = NaN below everything,
\* the rest by numeric order
FloatSign(a, b) ==
    IF a.c = "nan" /\ b.c = "nan" THEN 0
    ELSE IF a.c = "nan" THEN -1
    ELSE IF b.c = "nan" THEN 1
    ELSE IF FloatNumLess(a, b) THEN -1
    ELSE IF FloatNumLess(b, a) THEN 1
    ELSE 0

\* C26: bit width does not take part in comparison: a Value built from a
\* 32-bit integer (or float) and one built from a 64-bit integer (or float)
\* compare 0 when they have the same numeric value, and by numeric value
\* otherwise.
C26_WidthIgnored ==
    (vx.k = vy.k /\ vx.k \in {"int", "uint", "float"} /\ vx.w # vy.w) =>
        LET want == IF vx.k = "float" THEN FloatSign(vx, vy)
                    ELSE NumSign(vx.n, vy.n)
        IN  /\ compareValue(vx, vy) = want
            /\ pc = "valcompared" => valRet = want

\* the 32-bit float 1 against the 64-bit float 1
C26_Witness ==
    /\ pc = "valcompared"
    /\ vx = F32("num", 1)
    /\ vy = F64("num", 1)
    /\ valRet = 0

RECURSIVE decodeVarint(_)
\* the integer a varint payload stands for
decodeVarint(p) ==
    IF p = <<>> THEN 0 ELSE (Head(p) % 128) + 128 * decodeVarint(Tail(p))

\* the handle holds exactly one undecoded entry, number 100, whose payload
\* is a well-formed varint
OnlyVarint(h) ==
    /\ OnlyOneUnknown(h)
    /\ ProtoReflect(h).unknown[1].num = 100
    /\ ProtoReflect(h).unknown[1].wt = "varint"
    /\ ProtoReflect(h).unknown[1].payload
           = encodeVarint(decodeVarint(ProtoReflect(h).unknown[1].payload))

Decoded(h) == decodeVarint(ProtoReflect(h).unknown[1].payload)

\* C27 as stated: for two undecoded varint entries with the same field
\* number the result is the sign of comparing their decoded integers, for
\* every pair of integers, whatever the lengths of their encodings.
C27_VarintByMagnitude ==
    (OnlyVarint(x) /\ OnlyVarint(y)) =>
        Compare(x, y) = NumSign(Decoded(x), Decoded(y))

\* the nested message field (number 6) of a message
HasNested(m) == 6 \in FieldNums(m)

Nested(m) == FieldVal(m, 6)

\* the nested message is present and holds nothing
NestedEmpty(m) ==
    /\ HasNested(m)
    /\ Nested(m).m.fields = <<>>
    /\ Nested(m).m.unknown = <<>>

SameTypeValid2 ==
    /\ IsValidHandle(x)
    /\ IsValidHandle(y)
    /\ ProtoReflect(x).type = ProtoReflect(y).type

C29_ValueCompareZeroIffEqual ==
    /\ (compareValue(vx, vy) = 0) <=> equalValue(vx, vy)
    /\ pc = "valcompared" => (valRet = 0 <=> equalValue(vx, vy))

\* C30: handles that compare 0 are interchangeable: if Compare(x, y) = 0
\* then Compare(x, z) = Compare(y, z) and Compare(z, x) = Compare(z, y),
\* for all handles x, y, z.
C30_ZeroIsCongruence ==
    Compare(x, y) = 0 =>
        /\ Compare(x, z) = Compare(y, z)
        /\ Compare(z, x) = Compare(z, y)
        /\ pc = "compared" => cmpRet = 0

\* two separately allocated messages holding one map in two stored orders
\* compared 0, and a third message is above the one and so above the other
C30_Witness ==
    /\ pc = "compared"
    /\ cmpRet = 0
    /\ IsMapMsg(x)
    /\ IsMapMsg(y)
    /\ Stored(x) # Stored(y)
    /\ IsValidHandle(z)
    /\ Compare(z, x) = 1
    /\ Compare(z, y) = 1
    /\ Compare(y, z) = -1

====
